---- MODULE Spec2Model ----
(***************************************************************************)
(* Model of octodns/provider/mythicbeasts.py: the Mythic Beasts record     *)
(* codec (populate: LIST text -> records) and change compiler (_apply:     *)
(* plan -> ADD/DELETE command lines posted to the provider).               *)
(*                                                                         *)
(* Text is modelled as a sequence of one-character strings, so that the    *)
(* regular expressions, strip/replace/endswith and the '{} {}'.format      *)
(* calls of the source are computed, not assumed.                          *)
(***************************************************************************)
EXTENDS Naturals, Sequences, FiniteSets, TLC

VARIABLES
    pc,          \* position of the running method
    resp,        \* populate: the lines of the LIST response body
    li,          \* populate: index of the next line of resp to read
    data,        \* populate: data[_type][_name], the raw value groups, each
                 \* dict as the sequence of its items in insertion order
    ti,          \* populate: position of 'for _type in data'
    ni,          \* populate: position of 'for _name in data[_type]'
    zone,        \* populate: the records added to the zone, in add_record order
    plan,        \* _apply: plan.changes
    ci,          \* _apply: index of the change being applied (0 before the first)
    calls,       \* _apply: the handlers still to run for the current change
    commands,    \* _apply_Create/_apply_Delete: the compiled commands
    ki,          \* _apply_Create/_apply_Delete: index of the next command to post
    posted,      \* the transport: every POST made, with the status it got
    store        \* the provider: the record lines it holds

vars == <<pc, resp, li, data, ti, ni, zone,
          plan, ci, calls, commands, ki, posted, store>>

(***************************************************************************)
(* Bounds of the model.                                                    *)
(***************************************************************************)
MaxLines == 3
MaxChanges == 2

(***************************************************************************)
(* Text helpers: Python's str methods and the re module, on sequences of   *)
(* characters.                                                             *)
(***************************************************************************)
DigitChars == <<"0", "1", "2", "3", "4", "5", "6", "7", "8", "9">>

Digits == {DigitChars[k] : k \in 1..Len(DigitChars)}

\* one character against a regular-expression class: \d or [0-9], \s, \S, .
InClass(cls, c) ==
    CASE cls = "d" -> c \in Digits
      [] cls = "s" -> c = " "
      [] cls = "S" -> c # " "
      [] OTHER -> TRUE

\* the position after the longest run of cls characters of s that starts at p
RECURSIVE RunEnd(_, _, _)
RunEnd(s, p, cls) ==
    IF p <= Len(s) /\ InClass(cls, s[p]) THEN RunEnd(s, p + 1, cls) ELSE p

\* pattern items: a character class repeated (+ or *), captured or not
P(cls) == [cls |-> cls, min |-> 1, cap |-> FALSE]
G(cls) == [cls |-> cls, min |-> 1, cap |-> TRUE]
GStar(cls) == [cls |-> cls, min |-> 0, cap |-> TRUE]

\* items k.. of pat against s from position p, anchored at the end ($)
RECURSIVE ReFrom(_, _, _, _)
ReFrom(pat, k, s, p) ==
    IF k > Len(pat)
    THEN [ok |-> p = Len(s) + 1, groups |-> <<>>]
    ELSE LET q == RunEnd(s, p, pat[k].cls)
             rest == ReFrom(pat, k + 1, s, q)
         IN IF q - p < pat[k].min
            THEN [ok |-> FALSE, groups |-> <<>>]
            ELSE [ok |-> rest.ok,
                  groups |-> IF pat[k].cap
                             THEN <<SubSeq(s, p, q - 1)>> \o rest.groups
                             ELSE rest.groups]

\* re.match('^...$', s): the groups, match.group(k) being groups[k]; ok is
\* FALSE for None
re_match(pat, s) == ReFrom(pat, 1, s, 1)

RECURSIVE lstrip(_)
lstrip(s) == IF s # <<>> /\ s[1] = " " THEN lstrip(Tail(s)) ELSE s

RECURSIVE rstrip(_)
rstrip(s) ==
    IF s # <<>> /\ s[Len(s)] = " " THEN rstrip(SubSeq(s, 1, Len(s) - 1)) ELSE s

strip(s) == rstrip(lstrip(s))

endswith(s, c) == s # <<>> /\ s[Len(s)] = c

\* value.replace(';', '\\;')
RECURSIVE replace_semicolon(_)
replace_semicolon(s) ==
    IF s = <<>> THEN <<>>
    ELSE (IF s[1] = ";" THEN <<"\\", ";">> ELSE <<s[1]>>)
         \o replace_semicolon(Tail(s))

\* re.IGNORECASE for the letters of the CAA tags
lower(c) ==
    CASE c = "I" -> "i" [] c = "S" -> "s" [] c = "U" -> "u" [] c = "E" -> "e"
      [] c = "W" -> "w" [] c = "L" -> "l" [] c = "D" -> "d" [] c = "O" -> "o"
      [] c = "F" -> "f" [] OTHER -> c

lowered(s) == [k \in 1..Len(s) |-> lower(s[k])]

DigitVal(c) == (CHOOSE k \in 1..Len(DigitChars) : DigitChars[k] = c) - 1

\* int(text) of a run of digits
RECURSIVE int(_)
int(s) ==
    IF s = <<>> THEN 0
    ELSE 10 * int(SubSeq(s, 1, Len(s) - 1)) + DigitVal(s[Len(s)])

\* '{}'.format(n) of a non-negative integer
RECURSIVE str(_)
str(n) ==
    IF n < 10 THEN <<DigitChars[n + 1]>>
    ELSE str(n \div 10) \o <<DigitChars[(n % 10) + 1]>>

\* ' '.join(parts): what '{} {} ...'.format(parts...) builds
RECURSIVE join(_)
join(parts) ==
    IF Len(parts) = 1 THEN parts[1]
    ELSE parts[1] \o <<" ">> \o join(Tail(parts))

\* '{}.{}'.format(a, b)
dotted(a, b) == a \o <<".">> \o b

add_trailing_dot(value) == value \o <<".">>

remove_trailing_dot(value) == SubSeq(value, 1, Len(value) - 1)

(***************************************************************************)
(* Names of record types, as text.                                         *)
(***************************************************************************)
T_A == <<"A">>
T_AAAA == <<"A", "A", "A", "A">>
T_ALIAS == <<"A", "L", "I", "A", "S">>
T_ANAME == <<"A", "N", "A", "M", "E">>
T_CAA == <<"C", "A", "A">>
T_CNAME == <<"C", "N", "A", "M", "E">>
T_MX == <<"M", "X">>
T_NS == <<"N", "S">>
T_PTR == <<"P", "T", "R">>
T_SRV == <<"S", "R", "V">>
T_SSHFP == <<"S", "S", "H", "F", "P">>
T_TXT == <<"T", "X", "T">>
T_single == <<"s", "i", "n", "g", "l", "e">>
T_multiple == <<"m", "u", "l", "t", "i", "p", "l", "e">>

\* SUPPORTS of the class
SUPPORTS ==
    {T_A, T_AAAA, T_ALIAS, T_CNAME, T_MX, T_NS, T_SRV, T_SSHFP, T_CAA, T_TXT}

\* the X for which the class has an attribute _data_for_X
DataForNames ==
    {T_single, T_multiple, T_MX, T_CNAME, T_ANAME, T_SRV, T_SSHFP, T_CAA,
     T_NS, T_TXT, T_A, T_AAAA}

\* hasattr(self, '_data_for_{}'.format(_type))
hasattr_data_for(_type) == _type \in DataForNames

(***************************************************************************)
(* The regular expressions of the source.                                  *)
(***************************************************************************)
\* '^(\S+)\s+(\d+)\s+(\S+)\s+(.*)$'
LINE_RE == <<G("S"), P("s"), G("d"), P("s"), G("S"), P("s"), GStar(".")>>

\* '^([0-9]+)\s+(\S+)$'
MX_RE == <<G("d"), P("s"), G("S")>>

\* '^([0-9]+)\s+([0-9]+)\s+([0-9]+)\s+(\S+)$'
SRV_RE == <<G("d"), P("s"), G("d"), P("s"), G("d"), P("s"), G("S")>>

\* '^([0-9]+)\s+([0-9]+)\s+(\S+)$'
SSHFP_RE == <<G("d"), P("s"), G("d"), P("s"), G("S")>>

\* the alternatives of '(issue|issuewild|iodef)'
CAA_TAGS ==
    {<<"i", "s", "s", "u", "e">>,
     <<"i", "s", "s", "u", "e", "w", "i", "l", "d">>,
     <<"i", "o", "d", "e", "f">>}

\* '^([0-9]+)\s+(issue|issuewild|iodef)\s+(\S+)$', re.IGNORECASE: the tag is
\* followed by \s+, so it is a whole \S+ run that is one of the alternatives
CAA_match(s) ==
    LET m == re_match(<<G("d"), P("s"), G("S"), P("s"), G("S")>>, s)
    IN [ok |-> m.ok /\ lowered(m.groups[2]) \in CAA_TAGS, groups |-> m.groups]

\* re.match('[A]{1,4}', _type) is not None: not anchored at the end
A_family_match(_type) == _type # <<>> /\ _type[1] = "A"

(***************************************************************************)
(* The value decoders.  A failed assert is the record [error |-> message]. *)
(***************************************************************************)
IsError(r) == "error" \in DOMAIN r

max(S) == CHOOSE m \in S : \A n \in S : n <= m

ttls(raw_values) == {raw_values[k].ttl : k \in 1..Len(raw_values)}

_data_for_single(_type, d) ==
    [type |-> _type,
     value |-> d.raw_values[1].value,
     ttl |-> d.raw_values[1].ttl]

_data_for_multiple_first_ttl(_type, d) ==
    [type |-> _type,
     values |-> [k \in 1..Len(d.raw_values) |-> d.raw_values[k].value],
     ttl |-> d.raw_values[1].ttl]

_data_for_multiple(_type, d) ==
    [type |-> _type,
     values |-> [k \in 1..Len(d.raw_values) |-> d.raw_values[k].value],
     ttl |-> max(ttls(d.raw_values))]

_data_for_MX_skip_malformed(_type, d) ==
    LET good == SelectSeq(d.raw_values,
                          LAMBDA rv : re_match(MX_RE, rv.value).ok)
        m(k) == re_match(MX_RE, good[k].value)
    IN [type |-> _type,
        values |-> [k \in 1..Len(good) |->
                       [preference |-> m(k).groups[1],
                        exchange |-> IF ~endswith(m(k).groups[2], ".")
                                     THEN dotted(m(k).groups[2], d.zone)
                                     ELSE m(k).groups[2]]],
        ttl |-> max(ttls(d.raw_values))]

_data_for_MX(_type, d) ==
    LET m(k) == re_match(MX_RE, d.raw_values[k].value)
        exchange(k) == IF ~endswith(m(k).groups[2], ".")
                       THEN dotted(m(k).groups[2], d.zone)
                       ELSE m(k).groups[2]
    IN IF \E k \in 1..Len(d.raw_values) : ~m(k).ok
       THEN [error |-> "Unable to parse MX data"]
       ELSE [type |-> _type,
             values |-> [k \in 1..Len(d.raw_values) |->
                            [preference |-> m(k).groups[1],
                             exchange |-> exchange(k)]],
             ttl |-> max(ttls(d.raw_values))]

_data_for_CNAME(_type, d) ==
    LET ttl == d.raw_values[1].ttl
        raw == d.raw_values[1].value
        value == IF ~endswith(raw, ".") THEN dotted(raw, d.zone) ELSE raw
    IN _data_for_single(_type,
                        [raw_values |-> <<[value |-> value, ttl |-> ttl]>>])

_data_for_ANAME(_type, d) ==
    LET ttl == d.raw_values[1].ttl
        value == d.raw_values[1].value
    IN _data_for_single(T_ALIAS,
                        [raw_values |-> <<[value |-> value, ttl |-> ttl]>>])

_data_for_SRV(_type, d) ==
    LET m(k) == re_match(SRV_RE, d.raw_values[k].value)
        target(k) == IF ~endswith(m(k).groups[4], ".")
                     THEN dotted(m(k).groups[4], d.zone)
                     ELSE m(k).groups[4]
    IN IF \E k \in 1..Len(d.raw_values) : ~m(k).ok
       THEN [error |-> "Unable to parse SRV data"]
       ELSE [type |-> _type,
             values |-> [k \in 1..Len(d.raw_values) |->
                            [priority |-> m(k).groups[1],
                             weight |-> m(k).groups[2],
                             port |-> m(k).groups[3],
                             target |-> target(k)]],
             ttl |-> max(ttls(d.raw_values))]

_data_for_SSHFP(_type, d) ==
    LET m(k) == re_match(SSHFP_RE, d.raw_values[k].value)
    IN IF \E k \in 1..Len(d.raw_values) : ~m(k).ok
       THEN [error |-> "Unable to parse SSHFP data"]
       ELSE [type |-> _type,
             values |-> [k \in 1..Len(d.raw_values) |->
                            [algorithm |-> m(k).groups[1],
                             fingerprint_type |-> m(k).groups[2],
                             fingerprint |-> m(k).groups[3]]],
             ttl |-> max(ttls(d.raw_values))]

_data_for_CAA(_type, d) ==
    LET ttl == d.raw_values[1].ttl
        m == CAA_match(d.raw_values[1].value)
        value == [flags |-> m.groups[1],
                  tag |-> m.groups[2],
                  value |-> m.groups[3]]
    IN IF ~m.ok
       THEN [error |-> "Unable to parse CAA data"]
       ELSE _data_for_single(T_CAA,
                             [raw_values |-> <<[value |-> value, ttl |-> ttl]>>])

\* getattr(self, '_data_for_{}'.format(_type))(_type, d)
data_for(_type, d) ==
    CASE _type = T_MX -> _data_for_MX(_type, d)
      [] _type = T_CNAME -> _data_for_CNAME(_type, d)
      [] _type = T_ANAME -> _data_for_ANAME(_type, d)
      [] _type = T_SRV -> _data_for_SRV(_type, d)
      [] _type = T_SSHFP -> _data_for_SSHFP(_type, d)
      [] _type = T_CAA -> _data_for_CAA(_type, d)
      [] _type = T_single -> _data_for_single(_type, d)
      [] _type \in {T_NS, T_TXT, T_A, T_AAAA, T_multiple} ->
            _data_for_multiple(_type, d)

(***************************************************************************)
(* The collaborators of populate: the zone model and the transport.        *)
(***************************************************************************)
\* the record classes of the zone model
RecordTypes == SUPPORTS \cup {T_PTR}

\* a value of the zone model: the numeric fields of the structured values
\* are integers; a CAA value is carried as its text
value_new(_type, v) ==
    CASE _type = T_MX ->
            [preference |-> int(v.preference), exchange |-> v.exchange]
      [] _type = T_SRV ->
            [priority |-> int(v.priority), weight |-> int(v.weight),
             port |-> int(v.port), target |-> v.target]
      [] _type = T_SSHFP ->
            [algorithm |-> int(v.algorithm),
             fingerprint_type |-> int(v.fingerprint_type),
             fingerprint |-> v.fingerprint]
      [] _type = T_CAA -> join(<<str(int(v.flags)), v.tag, v.value>>)
      [] OTHER -> v

\* Record.fqdn
fqdn_of(zone_name, name) ==
    IF name = <<>> THEN zone_name ELSE dotted(name, zone_name)

\* Record.new(zone, name, data, source=self): an unknown type raises; CNAME
\* and ALIAS records have a value, the others have values
Record_new(zone_name, name, d) ==
    IF d.type \notin RecordTypes
    THEN [error |-> "Unknown record type"]
    ELSE IF d.type \in {T_CNAME, T_ALIAS}
    THEN [name |-> name, fqdn |-> fqdn_of(zone_name, name), _type |-> d.type,
          ttl |-> d.ttl, value |-> d.value]
    ELSE [name |-> name, fqdn |-> fqdn_of(zone_name, name), _type |-> d.type,
          ttl |-> d.ttl,
          values |-> IF "values" \in DOMAIN d
                     THEN [k \in 1..Len(d.values) |->
                              value_new(d.type, d.values[k])]
                     ELSE <<value_new(d.type, d.value)>>]

\* the statuses the provider answers a request with
Statuses == {200, 401, 500}

request_raises_401_only(status) == status = 401

\* _request: 401 raises, and resp.raise_for_status() raises for the other
\* error statuses
request_raises(status) == status = 401 \/ status >= 400

(***************************************************************************)
(* populate(zone): the LIST response is read line by line into             *)
(* data[_type][_name], then one record per group is added to the zone.     *)
(***************************************************************************)
zone_name == <<"e", ".">>

\* the position of key in a dict's items, 0 when 'key not in dict'
key_index(items, key) ==
    IF \E i \in 1..Len(items) : items[i].key = key
    THEN CHOOSE i \in 1..Len(items) : items[i].key = key
    ELSE 0

file_raw_newest_first(d, _type, _name, _value, _ttl) ==
    LET t == key_index(d, _type)
        names == IF t = 0 THEN <<>> ELSE d[t].val
        n == key_index(names, _name)
        raw_value == [value |-> _value, ttl |-> _ttl]
        names2 == IF n = 0
                  THEN Append(names,
                              [key |-> _name,
                               val |-> [raw_values |-> <<raw_value>>,
                                        name |-> _name,
                                        zone |-> zone_name]])
                  ELSE [names EXCEPT
                           ![n].val.raw_values = <<raw_value>> \o @]
    IN IF t = 0
       THEN Append(d, [key |-> _type, val |-> names2])
       ELSE [d EXCEPT ![t].val = names2]

\* data[_type][_name] after the line's raw value is filed
file_raw(d, _type, _name, _value, _ttl) ==
    LET t == key_index(d, _type)
        names == IF t = 0 THEN <<>> ELSE d[t].val
        n == key_index(names, _name)
        raw_value == [value |-> _value, ttl |-> _ttl]
        names2 == IF n = 0
                  THEN Append(names,
                              [key |-> _name,
                               val |-> [raw_values |-> <<raw_value>>,
                                        name |-> _name,
                                        zone |-> zone_name]])
                  ELSE [names EXCEPT
                           ![n].val.raw_values = Append(@, raw_value)]
    IN IF t = 0
       THEN Append(d, [key |-> _type, val |-> names2])
       ELSE [d EXCEPT ![t].val = names2]

\* the body of 'for line in resp.content.splitlines()' for one line
read_line(d, line) ==
    LET match == re_match(LINE_RE, line)
        _name == IF match.groups[1] = <<"@">> THEN <<>> ELSE match.groups[1]
        _type == match.groups[3]
        _ttl == int(match.groups[2])
        raw == strip(match.groups[4])
        _value == IF _type = T_TXT THEN replace_semicolon(raw) ELSE raw
    IN IF ~match.ok THEN d
       ELSE IF hasattr_data_for(_type)
            THEN file_raw(d, _type, _name, _value, _ttl)
            ELSE d

\* resp = self.records(zone.name): the LIST request
records ==
    /\ pc = "records"
    /\ \E status \in Statuses :
          /\ posted' = Append(posted, [command |-> <<"L", "I", "S", "T">>,
                                       domain |-> remove_trailing_dot(zone_name),
                                       status |-> status])
          /\ pc' = IF request_raises(status) THEN "raised"
                   ELSE IF resp = <<>> THEN "emit" ELSE "lines"
    /\ UNCHANGED <<resp, li, data, ti, ni, zone,
                   plan, ci, calls, commands, ki, store>>

\* one iteration of the loop over the lines
populate_line ==
    /\ pc = "lines"
    /\ li <= Len(resp)
    /\ data' = read_line(data, resp[li])
    /\ li' = li + 1
    /\ pc' = IF li = Len(resp) THEN "emit" ELSE "lines"
    /\ UNCHANGED <<resp, ti, ni, zone,
                   plan, ci, calls, commands, ki, posted, store>>

\* one iteration of 'for _type in data: for _name in data[_type]', the keys
\* of a dict coming in insertion order
populate_record ==
    /\ pc = "emit"
    /\ ti <= Len(data)
    /\ \E accepted \in BOOLEAN :
          LET _type == data[ti].key
              _name == data[ti].val[ni].key
              d == data_for(_type, data[ti].val[ni].val)
              record == Record_new(zone_name, _name, d)
              raised == IsError(d) \/ IsError(record) \/ ~accepted
          IN /\ zone' = IF raised THEN zone ELSE Append(zone, record)
             /\ pc' = IF raised THEN "raised" ELSE "emit"
    /\ ti' = IF ni < Len(data[ti].val) THEN ti ELSE ti + 1
    /\ ni' = IF ni < Len(data[ti].val) THEN ni + 1 ELSE 1
    /\ UNCHANGED <<resp, li, data,
                   plan, ci, calls, commands, ki, posted, store>>

\* return exists
populate_return ==
    /\ pc = "emit"
    /\ ti > Len(data)
    /\ pc' = "returned"
    /\ UNCHANGED <<resp, li, data, ti, ni, zone,
                   plan, ci, calls, commands, ki, posted, store>>

(***************************************************************************)
(* The LIST responses of the model.                                        *)
(***************************************************************************)
Line(owner, ttl, _type, value) == join(<<owner, ttl, _type, value>>)

W == <<"w">>
AT == <<"@">>
One == <<"1">>
Two == <<"2">>

\* the vocabularies a response draws its lines from: each mixes the lines
\* of some record types, well formed and not, with lines of other kinds
LineVocabs ==
    {{Line(W, One, T_A, <<"4">>), Line(W, Two, T_A, <<"5">>),
      Line(AT, One, T_A, <<"4">>),
      Line(W, One, T_MX, <<"1", " ", "m">>),
      Line(W, Two, T_TXT, <<"t", ";">>),
      Line(W, One, T_single, <<"x">>),
      Line(W, One, T_PTR, <<"p", ".">>),
      <<"w", " ", "x", " ", "A", " ", "4">>},
     {Line(W, One, T_AAAA, <<"6">>), Line(W, Two, T_AAAA, <<"7">>),
      Line(W, One, T_NS, <<"n", ".">>), Line(W, Two, T_NS, <<"o", ".">>),
      Line(W, One, T_TXT, <<"t", ";">>),
      Line(W, Two, T_TXT, <<"a", " ", "b">>),
      Line(W, One, T_multiple, <<"x">>)},
     {Line(W, One, T_MX, <<"1", " ", "m">>),
      Line(W, Two, T_MX, <<"1", " ", "m", ".">>),
      Line(W, One, T_MX, <<"m">>),
      Line(W, One, T_SRV, <<"1", " ", "1", " ", "1", " ", "s">>),
      Line(W, Two, T_SRV, <<"1", " ", "1", " ", "1", " ", "s", ".">>),
      Line(W, One, T_SRV, <<"1", " ", "s">>),
      Line(AT, One, T_A, <<"4">>)},
     {Line(W, One, T_SSHFP, <<"1", " ", "1", " ", "f">>),
      Line(W, Two, T_SSHFP, <<"2", " ", "1", " ", "f">>),
      Line(W, One, T_SSHFP, <<"f">>),
      Line(W, One, T_CAA, <<"0", " ", "i", "s", "s", "u", "e", " ", "l">>),
      Line(W, Two, T_CAA, <<"0", " ", "I", "O", "D", "E", "F", " ", "l">>),
      Line(W, One, T_CAA, <<"0", " ", "b", " ", "x">>),
      Line(W, One, T_PTR, <<"p", ".">>)},
     {Line(W, One, T_CNAME, <<"c">>), Line(W, Two, T_CNAME, <<"c", ".">>),
      Line(AT, One, T_ANAME, <<"c">>), Line(AT, Two, T_ANAME, <<"c", ".">>),
      Line(W, One, T_ALIAS, <<"c", ".">>),
      Line(W, One, T_A, <<"4">>),
      <<"w", " ", "1", " ", "A">>}}

RECURSIVE SeqsUpTo(_, _)
SeqsUpTo(S, n) ==
    IF n = 0 THEN {<<>>}
    ELSE LET shorter == SeqsUpTo(S, n - 1)
         IN shorter \cup {Append(q, x) : q \in shorter, x \in S}

InitPopulate ==
    /\ pc = "records"
    /\ resp \in UNION {SeqsUpTo(V, MaxLines) : V \in LineVocabs}
    /\ li = 1
    /\ data = <<>>
    /\ ti = 1
    /\ ni = 1
    /\ zone = <<>>
    /\ plan = <<>>
    /\ ci = 0
    /\ calls = <<>>
    /\ commands = <<>>
    /\ ki = 1
    /\ posted = <<>>
    /\ store = {}

NextPopulate ==
    \/ records
    \/ populate_line
    \/ populate_record
    \/ populate_return

SpecPopulate == InitPopulate /\ [][NextPopulate]_vars

(***************************************************************************)
(* The command compiler and _apply.                                        *)
(***************************************************************************)
ADD == <<"A", "D", "D">>
DELETE == <<"D", "E", "L", "E", "T", "E">>

\* self._passwords
_passwords == [z \in {zone_name} |-> <<"p", "w">>]

\* if _type == 'ALIAS': _type = 'ANAME'
wire_type_kept(_type) == _type

wire_type(_type) == IF _type = T_ALIAS THEN T_ANAME ELSE _type

\* the branch of the A family: one command per value
commands_A(base, values) ==
    [k \in 1..Len(values) |-> join(<<base, values[k]>>)]

\* the SSHFP branch: one command, of values[0]
commands_SSHFP(base, values) ==
    <<join(<<base,
             str(values[1].algorithm),
             str(values[1].fingerprint_type),
             values[1].fingerprint>>)>>

\* the SRV branch: one command per value
commands_SRV(base, values) ==
    [k \in 1..Len(values) |->
        join(<<base,
               str(values[k].priority),
               str(values[k].weight),
               str(values[k].port),
               values[k].target>>)]

commands_MX_first_only(base, values) ==
    <<join(<<base, str(values[1].preference), values[1].exchange>>)>>

\* the MX branch: one command per value
commands_MX(base, values) ==
    [k \in 1..Len(values) |->
        join(<<base, str(values[k].preference), values[k].exchange>>)]

\* the else branch: one command, of values[0], when the type has a decoder
commands_other(base, _type, values) ==
    IF hasattr_data_for(_type)
    THEN <<join(<<base, values[1]>>)>>
    ELSE <<>>

_compile_commands(action, change) ==
    LET record == IF action = ADD THEN change.new ELSE change.existing
        hostname == remove_trailing_dot(record.fqdn)
        ttl == record.ttl
        _type == wire_type(record._type)
        values == IF "values" \in DOMAIN record
                  THEN record.values
                  ELSE <<record.value>>
        base == join(<<action, hostname, str(ttl), _type>>)
    IN IF A_family_match(_type) THEN commands_A(base, values)
       ELSE IF _type = T_SSHFP THEN commands_SSHFP(base, values)
       ELSE IF _type = T_SRV THEN commands_SRV(base, values)
       ELSE IF _type = T_MX THEN commands_MX(base, values)
       ELSE commands_other(base, _type, values)

\* the provider: 'ADD rest' files the record line rest, 'DELETE rest'
\* removes it
provider(lines, command) ==
    LET m == re_match(<<G("S"), P("s"), GStar(".")>>, command)
    IN IF m.groups[1] = ADD THEN lines \cup {m.groups[2]}
       ELSE lines \ {m.groups[2]}

\* for change in changes: getattr(self, '_apply_{}'.format(class_name))(change)
_apply ==
    /\ pc = "_apply"
    /\ IF ci < Len(plan)
       THEN /\ ci' = ci + 1
            /\ pc' = plan[ci + 1].class
       ELSE /\ ci' = ci
            /\ pc' = "returned"
    /\ UNCHANGED <<resp, li, data, ti, ni, zone,
                   plan, calls, commands, ki, posted, store>>

_apply_Update_create_first ==
    /\ pc = "Update"
    /\ pc' = "Create"
    /\ calls' = <<"Delete">>
    /\ UNCHANGED <<resp, li, data, ti, ni, zone,
                   plan, ci, commands, ki, posted, store>>

\* self._apply_Delete(change); self._apply_Create(change)
_apply_Update ==
    /\ pc = "Update"
    /\ pc' = "Delete"
    /\ calls' = <<"Create">>
    /\ UNCHANGED <<resp, li, data, ti, ni, zone,
                   plan, ci, commands, ki, posted, store>>

_apply_Create ==
    /\ pc = "Create"
    /\ commands' = _compile_commands(ADD, plan[ci])
    /\ ki' = 1
    /\ pc' = "post_Create"
    /\ UNCHANGED <<resp, li, data, ti, ni, zone,
                   plan, ci, calls, posted, store>>

_apply_Delete ==
    /\ pc = "Delete"
    /\ commands' = _compile_commands(DELETE, plan[ci])
    /\ ki' = 1
    /\ pc' = "post_Delete"
    /\ UNCHANGED <<resp, li, data, ti, ni, zone,
                   plan, ci, calls, posted, store>>

\* one iteration of 'for command in commands: self._post({...})'
_post ==
    /\ pc \in {"post_Create", "post_Delete"}
    /\ ki <= Len(commands)
    /\ \E status \in Statuses :
          LET zone_of == IF pc = "post_Create"
                         THEN plan[ci].new.zone
                         ELSE plan[ci].existing.zone
          IN /\ posted' = Append(posted,
                                 [domain |-> remove_trailing_dot(zone_of),
                                  origin |-> <<".">>,
                                  password |-> _passwords[zone_of],
                                  command |-> commands[ki],
                                  status |-> status])
             /\ pc' = IF request_raises(status) THEN "raised" ELSE pc
             /\ ki' = IF request_raises(status) THEN ki ELSE ki + 1
             /\ store' = IF request_raises(status) THEN store
                         ELSE provider(store, commands[ki])
    /\ UNCHANGED <<resp, li, data, ti, ni, zone,
                   plan, ci, calls, commands>>

\* return True: back in _apply_Update, or in the loop of _apply
handler_return ==
    /\ pc \in {"post_Create", "post_Delete"}
    /\ ki > Len(commands)
    /\ IF calls # <<>>
       THEN /\ pc' = Head(calls)
            /\ calls' = Tail(calls)
       ELSE /\ pc' = "_apply"
            /\ calls' = calls
    /\ UNCHANGED <<resp, li, data, ti, ni, zone,
                   plan, ci, commands, ki, posted, store>>

(***************************************************************************)
(* The plans of the model.                                                 *)
(***************************************************************************)
Rec(name, ttl, _type, values) ==
    [fqdn |-> fqdn_of(zone_name, name), zone |-> zone_name, ttl |-> ttl,
     _type |-> _type, values |-> values]

RecSingle(name, ttl, _type, value) ==
    [fqdn |-> fqdn_of(zone_name, name), zone |-> zone_name, ttl |-> ttl,
     _type |-> _type, value |-> value]

Create(new) == [class |-> "Create", new |-> new]
Delete(existing) == [class |-> "Delete", existing |-> existing]
Update(existing, new) ==
    [class |-> "Update", existing |-> existing, new |-> new]

Mx(preference, exchange) == [preference |-> preference, exchange |-> exchange]
Srv(priority, target) ==
    [priority |-> priority, weight |-> 1, port |-> 1, target |-> target]
Sshfp(algorithm, fingerprint) ==
    [algorithm |-> algorithm, fingerprint_type |-> 1,
     fingerprint |-> fingerprint]

A_2 == Rec(W, 1, T_A, <<<<"4">>, <<"5">>>>)
A_2b == Rec(W, 2, T_A, <<<<"5">>, <<"6">>>>)
AAAA_2 == Rec(W, 1, T_AAAA, <<<<"6">>, <<"7">>>>)
AAAA_1 == Rec(W, 1, T_AAAA, <<<<"8">>>>)
NS_2 == Rec(W, 1, T_NS, <<<<"n", ".">>, <<"o", ".">>>>)
NS_1 == Rec(W, 1, T_NS, <<<<"q", ".">>>>)
TXT_2 == Rec(W, 1, T_TXT, <<<<"a", " ", "b">>, <<"t">>>>)
TXT_1 == Rec(W, 2, T_TXT, <<<<"u">>>>)
MX_2 == Rec(W, 1, T_MX, <<Mx(1, <<"m", ".">>), Mx(2, <<"n", ".">>)>>)
MX_1 == Rec(W, 1, T_MX, <<Mx(10, <<"m", ".">>)>>)
SRV_2 == Rec(W, 1, T_SRV, <<Srv(1, <<"s", ".">>), Srv(2, <<"t", ".">>)>>)
SRV_1 == Rec(W, 1, T_SRV, <<Srv(3, <<"s", ".">>)>>)
SSHFP_2 == Rec(W, 1, T_SSHFP, <<Sshfp(1, <<"f">>), Sshfp(2, <<"g">>)>>)
SSHFP_1 == Rec(W, 1, T_SSHFP, <<Sshfp(3, <<"f">>)>>)
CAA_2 == Rec(W, 1, T_CAA, <<<<"0", " ", "i", "s", "s", "u", "e", " ", "l">>,
                            <<"0", " ", "i", "o", "d", "e", "f", " ", "l">>>>)
CAA_1 == Rec(W, 1, T_CAA, <<<<"0", " ", "i", "s", "s", "u", "e", " ", "k">>>>)
CNAME_1 == RecSingle(W, 1, T_CNAME, <<"c", ".">>)
CNAME_1b == RecSingle(W, 2, T_CNAME, <<"d", ".">>)
ALIAS_1 == RecSingle(<<>>, 1, T_ALIAS, <<"c", ".">>)
ALIAS_1b == RecSingle(<<>>, 1, T_ALIAS, <<"d", ".">>)

Changes ==
    {Update(A_2, A_2b), Update(AAAA_2, AAAA_1), Update(NS_2, NS_1),
     Update(TXT_2, TXT_1), Update(MX_2, MX_1), Update(SRV_2, SRV_1),
     Update(SSHFP_2, SSHFP_1), Update(CAA_2, CAA_1),
     Update(CNAME_1, CNAME_1b), Update(ALIAS_1, ALIAS_1b),
     Create(A_2), Create(SSHFP_2), Create(ALIAS_1), Create(NS_2),
     Delete(A_2), Delete(MX_2), Delete(TXT_2)}

\* a value as the provider's record line carries it
wire_value(_type, v) ==
    CASE _type = T_MX -> join(<<str(v.preference), v.exchange>>)
      [] _type = T_SRV ->
            join(<<str(v.priority), str(v.weight), str(v.port), v.target>>)
      [] _type = T_SSHFP ->
            join(<<str(v.algorithm), str(v.fingerprint_type), v.fingerprint>>)
      [] OTHER -> v

values_of(record) ==
    IF "values" \in DOMAIN record THEN record.values ELSE <<record.value>>

\* the record lines the provider holds for a record: one per value
record_lines(record) ==
    {join(<<remove_trailing_dot(record.fqdn), str(record.ttl),
            IF record._type = T_ALIAS THEN T_ANAME ELSE record._type,
            wire_value(record._type, values_of(record)[k])>>) :
        k \in 1..Len(values_of(record))}

\* the provider holds the records the plan's changes found existing
existing_lines(changes) ==
    UNION {record_lines(changes[k].existing) :
              k \in {j \in 1..Len(changes) : changes[j].class # "Create"}}

InitApply ==
    /\ pc = "_apply"
    /\ plan \in SeqsUpTo(Changes, MaxChanges)
    /\ ci = 0
    /\ calls = <<>>
    /\ commands = <<>>
    /\ ki = 1
    /\ posted = <<>>
    /\ store = existing_lines(plan)
    /\ resp = <<>>
    /\ li = 1
    /\ data = <<>>
    /\ ti = 1
    /\ ni = 1
    /\ zone = <<>>

NextApply ==
    \/ _apply
    \/ _apply_Update
    \/ _apply_Create
    \/ _apply_Delete
    \/ _post
    \/ handler_return

SpecApply == InitApply /\ [][NextApply]_vars

(***************************************************************************)
(* Properties of _apply (SpecApply).                                       *)
(***************************************************************************)
IsPrefix(p, q) == Len(p) <= Len(q) /\ SubSeq(q, 1, Len(p)) = p

\* the command lines posted so far, in order
submitted == [k \in 1..Len(posted) |-> posted[k].command]

\* the commands a change stands for
change_commands(change) ==
    CASE change.class = "Create" -> _compile_commands(ADD, change)
      [] change.class = "Delete" -> _compile_commands(DELETE, change)
      [] change.class = "Update" ->
            _compile_commands(DELETE, change) \o _compile_commands(ADD, change)

RECURSIVE plan_commands(_)
plan_commands(changes) ==
    IF changes = <<>> THEN <<>>
    ELSE change_commands(Head(changes)) \o plan_commands(Tail(changes))

\* C1: the commands _apply posts are, in the plan's change order, the ADD
\* commands of each Create, the DELETE commands then the ADD commands of
\* each Update and the DELETE commands of each Delete, never interleaved:
\* what has been posted is always a prefix of that concatenation, and is the
\* whole of it when _apply returns.
C1_DispatchOrder ==
    /\ IsPrefix(submitted, plan_commands(plan))
    /\ pc = "returned" => submitted = plan_commands(plan)

\* an Update of a two-valued record, followed by another change, was applied
C1_Witness ==
    /\ pc = "returned"
    /\ Len(plan) = 2
    /\ plan[1] = Update(A_2, A_2b)
    /\ plan[2].class = "Delete"
    /\ Len(posted) >= 5

\* C2: an Update applied to a provider that holds exactly the existing
\* record's values, every command succeeding, leaves the provider holding
\* exactly the new record's values, and so does applying it a second time.
C2_UpdateReplaces ==
    (/\ pc = "returned"
     /\ plan # <<>>
     /\ plan[1].class = "Update"
     /\ \A k \in 1..Len(plan) : plan[k] = plan[1])
    => store = record_lines(plan[1].new)

\* a command line taken apart: ACTION OWNER TTL TYPE VALUE
COMMAND_RE ==
    <<G("S"), P("s"), G("S"), P("s"), G("d"), P("s"), G("S"), P("s"),
      GStar(".")>>

PerValueTypes == {T_A, T_AAAA, T_MX, T_SRV}

FirstValueTypes == {T_SSHFP, T_NS, T_TXT, T_CNAME, T_CAA, T_ALIAS}

\* the commands compiled for action and record have the shape of the claim
compiled_as_claimed(action, record, cmds) ==
    LET values == values_of(record)
        m(k) == re_match(COMMAND_RE, cmds[k])
    IN /\ \A k \in 1..Len(cmds) :
             /\ m(k).ok
             /\ m(k).groups[1] = action
             /\ add_trailing_dot(m(k).groups[2]) = record.fqdn
             /\ m(k).groups[3] = str(record.ttl)
             /\ m(k).groups[4] =
                   (IF record._type = T_ALIAS THEN T_ANAME ELSE record._type)
       /\ record._type \in PerValueTypes =>
             /\ Len(cmds) = Len(values)
             /\ \A k \in 1..Len(cmds) :
                   m(k).groups[5] = wire_value(record._type, values[k])
       /\ record._type \in FirstValueTypes =>
             /\ Len(cmds) = 1
             /\ m(1).groups[5] = wire_value(record._type, values[1])

\* C9: _compile_commands reads the new record for ADD and the existing one
\* for DELETE; every command starts 'ACTION OWNER TTL TYPE', OWNER being the
\* fqdn without its trailing dot; A, AAAA, MX and SRV give one command per
\* value, in value order; SSHFP, NS, TXT, CNAME, CAA and ALIAS give exactly
\* one command, of the first value.
C9_CompiledCommands ==
    /\ pc = "post_Create" =>
          /\ plan[ci].new._type \in PerValueTypes \cup FirstValueTypes
          /\ compiled_as_claimed(ADD, plan[ci].new, commands)
    /\ pc = "post_Delete" =>
          /\ plan[ci].existing._type \in PerValueTypes \cup FirstValueTypes
          /\ compiled_as_claimed(DELETE, plan[ci].existing, commands)

\* the DELETE commands of a two-valued MX record have been compiled
C9_Witness ==
    /\ pc = "post_Delete"
    /\ plan[ci].existing = MX_2
    /\ Len(commands) = 2

\* the claim's failed submission: HTTP 401 or any other non-2xx status
failed(status) == status \notin 200..299

parsed(k) == re_match(LINE_RE, resp[k])
line_type(k) == parsed(k).groups[3]
line_name(k) == IF parsed(k).groups[1] = AT THEN <<>> ELSE parsed(k).groups[1]
line_ttl(k) == int(parsed(k).groups[2])
line_value(k) ==
    IF line_type(k) = T_TXT
    THEN replace_semicolon(strip(parsed(k).groups[4]))
    ELSE strip(parsed(k).groups[4])

\* the lines read so far
lines_read == 1..(li - 1)

\* the wire types the provider supports
SupportedWire ==
    {T_A, T_AAAA, T_CNAME, T_MX, T_NS, T_SRV, T_SSHFP, T_CAA, T_TXT, T_ANAME}

\* the groups of data, as <<_type, _name>> pairs, and their raw values
pairs ==
    UNION {{<<data[t].key, data[t].val[n].key>> : n \in 1..Len(data[t].val)} :
              t \in 1..Len(data)}

group(pair) ==
    LET t == key_index(data, pair[1])
    IN data[t].val[key_index(data[t].val, pair[2])].val

\* the group a record of the zone was decoded from
record_pair(record) ==
    <<IF record._type = T_ALIAS THEN T_ANAME ELSE record._type, record.name>>

\* the line files a raw value: it matches the line grammar and its type has
\* a decoder
filed(k) == parsed(k).ok /\ hasattr_data_for(line_type(k))

\* C3: a grammatically valid line whose TYPE is not a supported type is
\* skipped: no group is created for it (and so no record, and no error).
C3_LenientIngest ==
    \A k \in lines_read :
       (parsed(k).ok /\ line_type(k) \notin SupportedWire)
       => \A pair \in pairs : pair[1] # line_type(k)

\* the raw name as the claim has it decoded
qualified(raw) == IF endswith(raw, ".") THEN raw ELSE dotted(raw, zone_name)

\* the name field of a decoded record is the qualified raw name
names_qualified(record) ==
    LET raw_values == group(record_pair(record)).raw_values
    IN CASE record._type = T_MX ->
               \A k \in 1..Len(record.values) :
                  record.values[k].exchange =
                     qualified(re_match(MX_RE, raw_values[k].value).groups[2])
         [] record._type = T_SRV ->
               \A k \in 1..Len(record.values) :
                  record.values[k].target =
                     qualified(re_match(SRV_RE, raw_values[k].value).groups[4])
         [] record._type \in {T_CNAME, T_ALIAS} ->
               /\ record.value = qualified(raw_values[1].value)
               /\ endswith(record.value, ".")
         [] OTHER -> TRUE

\* C4: in every decoded record each MX exchange, SRV target, CNAME value and
\* ALIAS (wire type ANAME) value is the raw name followed by '.' and the zone
\* name when the raw name does not end with a dot, and the raw name unchanged
\* when it does.
C4_RelativeNamesQualified ==
    \A i \in 1..Len(zone) : names_qualified(zone[i])

\* the same, of the records other than ALIAS
C4_QualifiedExceptAlias ==
    \A i \in 1..Len(zone) :
       zone[i]._type # T_ALIAS => names_qualified(zone[i])

SingleValued == {T_CNAME, T_ALIAS, T_CAA}

MultiValued == {T_A, T_AAAA, T_NS, T_TXT, T_MX, T_SRV, T_SSHFP}

\* C5: the ttl of a decoded record is the ttl of the first raw value of its
\* group for CNAME, ALIAS/ANAME and CAA, and the maximum of the raw ttls of
\* the group for A, AAAA, NS, TXT, MX, SRV and SSHFP; for a group of one raw
\* value it is that value's ttl.
C5_DecodedTtl ==
    \A i \in 1..Len(zone) :
       LET raw_values == group(record_pair(zone[i])).raw_values
       IN /\ zone[i]._type \in SingleValued \cup MultiValued
          /\ zone[i]._type \in SingleValued =>
                zone[i].ttl = raw_values[1].ttl
          /\ zone[i]._type \in MultiValued =>
                /\ \A k \in 1..Len(raw_values) : raw_values[k].ttl <= zone[i].ttl
                /\ \E k \in 1..Len(raw_values) : raw_values[k].ttl = zone[i].ttl
          /\ Len(raw_values) = 1 => zone[i].ttl = raw_values[1].ttl

\* a multi-valued record whose first raw ttl is not the maximum of its group
C5_Witness ==
    /\ \E i \in 1..Len(zone) :
          /\ zone[i]._type \in {T_NS, T_SSHFP, T_MX, T_AAAA}
          /\ group(record_pair(zone[i])).raw_values[1].ttl < zone[i].ttl
    /\ pc = "returned"

\* the (type, owner) pair each line read files a raw value under, <<>> for
\* a line that files none
filed_pairs ==
    [k \in lines_read |->
        IF filed(k) THEN <<line_type(k), line_name(k)>> ELSE <<>>]

\* the first line with the pair, and the first with the type, in such a table
first_of_pair(tab, pair) ==
    CHOOSE k \in DOMAIN tab :
       tab[k] = pair /\ \A j \in 1..(k - 1) : tab[j] # pair

first_of_type(tab, _type) ==
    CHOOSE k \in DOMAIN tab :
       /\ tab[k] # <<>> /\ tab[k][1] = _type
       /\ \A j \in 1..(k - 1) : tab[j] = <<>> \/ tab[j][1] # _type

\* the raw values of the lines 1..k that have the pair, in line order
RECURSIVE raw_values_of(_, _, _)
raw_values_of(tab, pair, k) ==
    IF k = 0 THEN <<>>
    ELSE IF tab[k] = pair
    THEN Append(raw_values_of(tab, pair, k - 1),
                [value |-> line_value(k), ttl |-> line_ttl(k)])
    ELSE raw_values_of(tab, pair, k - 1)

\* the lines are grouped by (TYPE, OWNER), raw values in line order, and the
\* zone is handed at most one record per group, one per group at the return
grouped_once(tab) ==
    /\ pairs = {tab[k] : k \in DOMAIN tab} \ {<<>>}
    /\ \A pair \in pairs :
          group(pair).raw_values = raw_values_of(tab, pair, li - 1)
    /\ \A i \in 1..Len(zone) : record_pair(zone[i]) \in pairs
    /\ \A i, j \in 1..Len(zone) :
          record_pair(zone[i]) = record_pair(zone[j]) => i = j
    /\ pc = "returned" =>
          \A pair \in pairs : \E i \in 1..Len(zone) : record_pair(zone[i]) = pair

\* C6 as claimed: the records are handed to the zone in the order in which
\* their (type, owner) pair first appears in the LIST text.
C6_FirstAppearanceOrder ==
    LET tab == filed_pairs
    IN /\ grouped_once(tab)
       /\ \A i, j \in 1..Len(zone) :
             i < j => first_of_pair(tab, record_pair(zone[i]))
                         < first_of_pair(tab, record_pair(zone[j]))

\* C6 as amended: lines are grouped by (TYPE, OWNER) with each group's raw
\* values in line order, one record is handed to the zone per group, and the
\* records are handed type by type: the types in the order of their first
\* appearance in the text, and the owners of one type in the order of their
\* first appearance under that type.
C6_TypeMajorOrder ==
    LET tab == filed_pairs
    IN /\ grouped_once(tab)
       /\ \A i, j \in 1..Len(zone) :
             i < j =>
                LET a == record_pair(zone[i])
                    b == record_pair(zone[j])
                IN \/ first_of_type(tab, a[1]) < first_of_type(tab, b[1])
                   \/ /\ a[1] = b[1]
                      /\ first_of_pair(tab, a) < first_of_pair(tab, b)

\* three lines of two types and two owners, the second type between the
\* lines of the first: the records came out type by type
C6_Witness ==
    /\ pc = "returned"
    /\ Len(resp) = 3
    /\ Len(zone) = 3
    /\ line_type(1) = line_type(3)
    /\ line_type(1) # line_type(2)
    /\ record_pair(zone[2]) = <<line_type(3), line_name(3)>>
    /\ record_pair(zone[3]) = <<line_type(2), line_name(2)>>

\* a raw value that fails the value grammar of its type
malformed(_type, value) ==
    CASE _type = T_MX -> ~re_match(MX_RE, value).ok
      [] _type = T_SRV -> ~re_match(SRV_RE, value).ok
      [] _type = T_SSHFP -> ~re_match(SSHFP_RE, value).ok
      [] _type = T_CAA -> ~CAA_match(value).ok
      [] OTHER -> FALSE

Strict == {T_MX, T_SRV, T_SSHFP, T_CAA}

\* populate has not returned and the zone holds no record of the group
fatal(pair) ==
    /\ pc # "returned"
    /\ \A i \in 1..Len(zone) : record_pair(zone[i]) # pair

\* C7 as claimed: any raw value of an MX, SRV, SSHFP or CAA group that fails
\* the grammar makes populate fail, with no record of the group in the zone.
C7_AnyMalformedValueFatal ==
    \A pair \in pairs :
       (/\ pair[1] \in Strict
        /\ \E k \in 1..Len(group(pair).raw_values) :
              malformed(pair[1], group(pair).raw_values[k].value))
       => (pc \in {"emit", "returned", "raised"} => fatal(pair))

\* C7 as amended: any raw value of an MX, SRV or SSHFP group, or the first
\* raw value of a CAA group, that fails the grammar makes populate fail, with
\* no record of the group in the zone; the later raw values of a CAA group
\* are not parsed.
C7_StrictValueParsing ==
    \A pair \in pairs :
       (/\ pair[1] \in Strict
        /\ \E k \in 1..Len(group(pair).raw_values) :
              /\ malformed(pair[1], group(pair).raw_values[k].value)
              /\ pair[1] = T_CAA => k = 1)
       => (pc \in {"emit", "returned", "raised"} => fatal(pair))

\* populate failed at an MX group whose first value is well formed and whose
\* second is not, after a record of another group was added
C7_Witness ==
    /\ pc = "raised"
    /\ Len(zone) = 1
    /\ Len(data) = 2
    /\ ti = 3
    /\ data[2].key = T_MX
    /\ Len(data[2].val) = 1
    /\ Len(data[2].val[1].val.raw_values) = 2
    /\ ~malformed(T_MX, data[2].val[1].val.raw_values[1].value)
    /\ malformed(T_MX, data[2].val[1].val.raw_values[2].value)

\* C8: a line of TYPE ANAME decodes to a record of type ALIAS, never ANAME;
\* the commands compiled for an ALIAS record carry TYPE ANAME, never ALIAS;
\* and the ADD compiled for the record decoded from an ANAME line is one
\* command with the line's owner (as the record's name in the zone, no
\* trailing dot), ttl, wire type and value.
C8_AliasAnameInverse ==
    /\ \A i \in 1..Len(zone) :
          /\ zone[i]._type # T_ANAME
          /\ record_pair(zone[i])[1] = T_ANAME <=> zone[i]._type = T_ALIAS
          /\ zone[i]._type = T_ALIAS =>
                LET k == first_of_pair(filed_pairs, record_pair(zone[i]))
                    adds == _compile_commands(ADD, Create(zone[i]))
                    dels == _compile_commands(DELETE, Delete(zone[i]))
                    m == re_match(COMMAND_RE, adds[1])
                IN /\ Len(adds) = 1
                   /\ m.ok
                   /\ m.groups[1] = ADD
                   /\ add_trailing_dot(m.groups[2])
                         = fqdn_of(zone_name, line_name(k))
                   /\ int(m.groups[3]) = line_ttl(k)
                   /\ m.groups[4] = line_type(k)
                   /\ m.groups[4] = T_ANAME
                   /\ m.groups[5] = line_value(k)
                   /\ Len(dels) = 1
                   /\ re_match(COMMAND_RE, dels[1]).groups[4] = T_ANAME
    /\ pc = "returned" =>
          \A k \in lines_read :
             (parsed(k).ok /\ line_type(k) = T_ANAME) =>
                \E i \in 1..Len(zone) :
                   /\ zone[i]._type = T_ALIAS
                   /\ zone[i].name = line_name(k)

\* the record of the line '@ 1 ANAME c' is in the zone, and compiles to the
\* command 'ADD e 1 ANAME c'
C8_Witness ==
    /\ pc = "returned"
    /\ Len(resp) = 1
    /\ resp[1] = Line(AT, One, T_ANAME, <<"c">>)
    /\ \E i \in 1..Len(zone) :
          /\ zone[i]._type = T_ALIAS
          /\ _compile_commands(ADD, Create(zone[i])) =
                <<<<"A", "D", "D", " ", "e", " ", "1", " ",
                    "A", "N", "A", "M", "E", " ", "c">>>>

====
